---- MODULE Spec2Model ----
(***************************************************************************)
(* A model of the chromatogram analyzer: the tab-delimited table parser    *)
(* (ChromatogramRun.parse_chromatogram_data), the run object and its peak  *)
(* detection (ChromatogramRun.__init__, find_peaks, y, elution_volumes,    *)
(* total_elution_volume), Peak construction and utils.integrate.           *)
(*                                                                         *)
(* Text is a sequence of one-character strings.  Numbers are integers: the *)
(* modelled inputs hold only decimals whose value is an integer, which are *)
(* exact in float32.  Fractions (0.15, 0.95, interpolated positions) are   *)
(* kept exact as hundredths or as numerator/denominator pairs.             *)
(***************************************************************************)
EXTENDS Integers, Sequences, FiniteSets, TLC

VARIABLES
    content,    \* parser: the text handed to parse_chromatogram_data
    parsed,     \* parser: its outcome
    phase,      \* run: "new" before the constructor call, "live" once an
                \*      object was handed back, "failed" when it raised
    file,       \* run: the file the constructor was given
    ctor,       \* run: the constructor's outcome
    hasData,    \* run: whether self.data was assigned
    data,       \* run: self.data, the parsed rows
    NORMALIZE, DISTANCE, MIN_HEIGHT, MIN_WIDTH, MAX_WIDTH, RELATIVE_HEIGHT,
                \* run: the stored settings (class defaults, instance override)
    last,       \* run: the most recent operation, what it used and its outcome
    icall,      \* integrate: the call's arguments
    iout        \* integrate: its outcome

parseVars == <<content, parsed>>
settingVars == <<NORMALIZE, DISTANCE, MIN_HEIGHT, MIN_WIDTH, MAX_WIDTH, RELATIVE_HEIGHT>>
runVars == <<phase, file, ctor, hasData, data, settingVars, last>>
intVars == <<icall, iout>>
vars == <<parseVars, runVars, intVars>>

(***************************************************************************)
(* Bounds of the model.                                                    *)
(***************************************************************************)
MaxRows == 2
MaxLen == 4
MaxVal == 2
WideApex == 6
MaxWindow == 3
MaxGiven == 2

(***************************************************************************)
(* Python str operations used by the parser.                               *)
(***************************************************************************)
None == "None"

Whitespace == {" ", "\t", "\n", "\r"}

RECURSIVE LStrip(_)
LStrip(s) ==
    IF s # <<>> /\ Head(s) \in Whitespace THEN LStrip(Tail(s)) ELSE s

RECURSIVE RStrip(_)
RStrip(s) ==
    IF s # <<>> /\ s[Len(s)] \in Whitespace
    THEN RStrip(SubSeq(s, 1, Len(s) - 1))
    ELSE s

\* str.strip()
Strip(s) == RStrip(LStrip(s))

\* str.split(sep) for a one-character separator: always at least one piece.
RECURSIVE Split(_, _)
Split(s, sep) ==
    IF \A i \in 1..Len(s) : s[i] # sep
    THEN <<s>>
    ELSE LET i == CHOOSE j \in 1..Len(s) :
                      s[j] = sep /\ \A k \in 1..(j - 1) : s[k] # sep
         IN  <<SubSeq(s, 1, i - 1)>> \o Split(SubSeq(s, i + 1, Len(s)), sep)

\* str.replace(old, new): non-overlapping occurrences, left to right.
RECURSIVE Replace(_, _, _)
Replace(s, old, new) ==
    IF Len(s) < Len(old) THEN s
    ELSE IF SubSeq(s, 1, Len(old)) = old
         THEN new \o Replace(SubSeq(s, Len(old) + 1, Len(s)), old, new)
         ELSE <<Head(s)>> \o Replace(Tail(s), old, new)

Sentinel == <<"n", ".", "a", ".">>
ZeroText == <<"0", ".", "0">>

Digits == {"0", "1", "2", "3", "4", "5", "6", "7", "8", "9"}

DigitVal(c) ==
    CASE c = "0" -> 0 [] c = "1" -> 1 [] c = "2" -> 2 [] c = "3" -> 3
      [] c = "4" -> 4 [] c = "5" -> 5 [] c = "6" -> 6 [] c = "7" -> 7
      [] c = "8" -> 8 [] c = "9" -> 9

\* Whether float(s) accepts s, over the alphabet of the modelled inputs
\* (digits, sign, point, letters, whitespace): surrounding whitespace is
\* ignored, then an optional sign, digits with at most one point, and at
\* least one digit.
IsFloat(s) ==
    LET t == Strip(s)
        u == IF t # <<>> /\ Head(t) \in {"-", "+"} THEN Tail(t) ELSE t
    IN  /\ \A i \in 1..Len(u) : u[i] \in Digits \cup {"."}
        /\ Cardinality({i \in 1..Len(u) : u[i] = "."}) <= 1
        /\ \E i \in 1..Len(u) : u[i] \in Digits

RECURSIVE DigitsVal(_)
DigitsVal(ds) ==
    IF ds = <<>> THEN 0
    ELSE 10 * DigitsVal(SubSeq(ds, 1, Len(ds) - 1)) + DigitVal(ds[Len(ds)])

\* The value float(s) returns, for an accepted s whose digits after the
\* point are all zero (every number of the modelled inputs).
FloatVal(s) ==
    LET t == Strip(s)
        neg == t # <<>> /\ Head(t) = "-"
        u == IF t # <<>> /\ Head(t) \in {"-", "+"} THEN Tail(t) ELSE t
        whole == Head(Split(u, "."))
    IN  IF neg THEN 0 - DigitsVal(whole) ELSE DigitsVal(whole)

\* float(s): the value, or ValueError.
PyFloat(s) ==
    IF IsFloat(s) THEN [exc |-> None, val |-> FloatVal(s)]
    ELSE [exc |-> "ValueError", val |-> 0]

(***************************************************************************)
(* ChromatogramRun.parse_chromatogram_data                                 *)
(***************************************************************************)
\* ParseLine with the column count test loosened to "at least three".
ParseLineFirstThree(line) ==
    LET columns == Split(line, "\t")
    IN  IF Len(columns) >= 3
        THEN LET step == PyFloat(Replace(columns[2], Sentinel, ZeroText))
                 time == PyFloat(columns[1])
                 value == PyFloat(columns[3])
             IN  IF step.exc = None /\ time.exc = None /\ value.exc = None
                 THEN [exc |-> None,
                       rows |-> <<[time |-> time.val, step |-> step.val,
                                   value |-> value.val]>>]
                 ELSE [exc |-> None, rows |-> <<>>]
        ELSE [exc |-> None, rows |-> <<>>]

\* One line of the loop: the tuple appended (or none), or the exception that
\* leaves the try block uncaught.
ParseLine(line) ==
    LET columns == Split(line, "\t")
    IN  IF Len(columns) = 3
        THEN LET step == PyFloat(Replace(columns[2], Sentinel, ZeroText))
                 time == PyFloat(columns[1])
                 value == PyFloat(columns[3])
                 exc == IF step.exc # None THEN step.exc
                        ELSE IF time.exc # None THEN time.exc
                        ELSE value.exc
             IN  IF exc = None
                 THEN [exc |-> None,
                       rows |-> <<[time |-> time.val, step |-> step.val,
                                   value |-> value.val]>>]
                 ELSE IF exc = "ValueError"
                      THEN [exc |-> None, rows |-> <<>>]
                      ELSE [exc |-> exc, rows |-> <<>>]
        ELSE [exc |-> None, rows |-> <<>>]

RECURSIVE ParseLines(_)
ParseLines(lines) ==
    IF lines = <<>> THEN [exc |-> None, rows |-> <<>>]
    ELSE LET first == ParseLine(Head(lines))
         IN  IF first.exc # None THEN first
             ELSE LET rest == ParseLines(Tail(lines))
                  IN  IF rest.exc # None THEN rest
                      ELSE [exc |-> None, rows |-> first.rows \o rest.rows]

parse_chromatogram_data(text) ==
    ParseLines(Tail(Split(Strip(text), "\n")))

(***************************************************************************)
(* The texts the parser is run on: a header line and up to MaxRows rows,   *)
(* optionally preceded and followed by a line break.                       *)
(***************************************************************************)
RECURSIVE Join(_, _)
Join(pieces, sep) ==
    IF pieces = <<>> THEN <<>>
    ELSE IF Len(pieces) = 1 THEN pieces[1]
    ELSE pieces[1] \o <<sep>> \o Join(Tail(pieces), sep)

Fields == {<<"1">>, <<"2">>, Sentinel, <<"a">>}

RowFields ==
    {<<a, b, c>> : a \in Fields, b \in Fields, c \in Fields}
    \cup {<<<<>>>>,                                    \* a blank line
          <<<<"1">>, <<"2">>>>,                         \* two columns
          <<<<"1">>, <<"2">>, <<"1">>, <<"2">>>>,       \* four columns
          <<<<"1">>, <<"2">>, <<"1">>, <<>>>>,          \* a trailing tab
          <<<<"1">>, <<>>, <<"2">>>>,                   \* an empty step
          <<<<"1">>, <<"1">> \o Sentinel, <<"2">>>>,    \* "1n.a." as step
          <<<<"1">>, Sentinel \o Sentinel, <<"2">>>>,   \* "n.a.n.a." as step
          <<<<" ", "1">>, <<"2", " ">>, <<"1", "\r">>>>} \* padded numbers

RowTexts == {Join(f, "\t") : f \in RowFields}

Headers == {<<"t", "\t", "s", "\t", "v">>, <<"1", "\t", "2", "\t", "1">>}

Tables == UNION {[1..n -> RowTexts] : n \in 0..MaxRows}

Contents ==
    {<<>>} \cup
    {pre \o Join(<<h>> \o t, "\n") \o post :
        pre \in {<<>>, <<"\n">>}, h \in Headers, t \in Tables,
        post \in {<<>>, <<"\n">>}}

Pending == [exc |-> "pending", rows |-> <<>>]

(***************************************************************************)
(* Arrays are sequences read with 0-based indices, as in the source.       *)
(***************************************************************************)
At(a, i) == a[i + 1]

\* a[lo:hi+1] for 0 <= lo
Slice(a, lo, hi) == SubSeq(a, lo + 1, hi + 1)

RECURSIVE SumSeq(_)
SumSeq(a) == IF a = <<>> THEN 0 ELSE Head(a) + SumSeq(Tail(a))

MinOf(a) == CHOOSE m \in {a[i] : i \in 1..Len(a)} : \A i \in 1..Len(a) : m <= a[i]

MaxInt(a, b) == IF a >= b THEN a ELSE b

\* Optional arguments: <<>> is None, <<v>> is the value v.
Omitted == <<>>
Given(v) == <<v>>
Truthy(arg) == arg # Omitted /\ arg[1] # 0

\* Fractions n/d with d > 0.
Frac(n, d) == [n |-> n, d |-> d]
FracLeq(a, b) == a.n * b.d <= b.n * a.d
FracSub(a, b) == Frac(a.n * b.d - b.n * a.d, a.d * b.d)

\* round(): to the nearest integer, a tie to the even one (n >= 0).
Round(q) ==
    LET w == q.n \div q.d
        r == q.n % q.d
    IN  IF 2 * r < q.d THEN w
        ELSE IF 2 * r > q.d THEN w + 1
        ELSE IF w % 2 = 0 THEN w ELSE w + 1

(***************************************************************************)
(* utils.normalize and utils.integrate                                     *)
(***************************************************************************)
\* np.min of an empty array raises ValueError.
normalize(values) ==
    IF values = <<>> THEN [exc |-> "ValueError", val |-> <<>>]
    ELSE [exc |-> None,
          val |-> [i \in 1..Len(values) |-> values[i] - MinOf(values)]]

\* scipy.integrate.simpson is a library function: its value on (x, y) is
\* kept as the application itself.
Simpson(x, y) == [fn |-> "simpson", x |-> x, y |-> y]

NoArea == [fn |-> "none", x |-> <<>>, y |-> <<>>]

\* integrate with the default branch falling back to Simpson's rule.
IntegrateFallback(x_data, y_data, method) ==
    [exc |-> None, area |-> Simpson(x_data, y_data)]

\* method = Omitted is the default 'simpson'.
integrate(x_data, y_data, method) ==
    LET m == IF method = Omitted THEN "simpson" ELSE method[1]
    IN  IF m = "simpson"
        THEN [exc |-> None, area |-> Simpson(x_data, y_data)]
        ELSE [exc |-> "ValueError", area |-> NoArea]

(***************************************************************************)
(* scipy.signal.find_peaks(x, height, distance, width, rel_height), on an  *)
(* integer series x.  The height threshold k * std(x) + mean(x) is kept as *)
(* k (in hundredths) and compared exactly.                                 *)
(***************************************************************************)
\* _local_maxima_1d: the midpoints of the strict local maxima and plateaus.
RECURSIVE LocalMaximaFrom(_, _)
LocalMaximaFrom(x, i) ==
    LET i_max == Len(x) - 1
    IN  IF i >= i_max THEN <<>>
        ELSE IF At(x, i - 1) < At(x, i)
        THEN LET i_ahead == CHOOSE j \in (i + 1)..i_max :
                                /\ ~(j < i_max /\ At(x, j) = At(x, i))
                                /\ \A k \in (i + 1)..(j - 1) :
                                       k < i_max /\ At(x, k) = At(x, i)
             IN  IF At(x, i_ahead) < At(x, i)
                 THEN <<(i + i_ahead - 1) \div 2>> \o LocalMaximaFrom(x, i_ahead + 1)
                 ELSE LocalMaximaFrom(x, i + 1)
        ELSE LocalMaximaFrom(x, i + 1)

LocalMaxima(x) == LocalMaximaFrom(x, 1)

\* x[p] >= (k / 100) * std(x) + mean(x), with n = len(x), S = sum(x),
\* Q = sum(x^2): 100 * (n * x[p] - S) >= k * sqrt(n * Q - S^2).
AboveHeight(x, p, k) ==
    LET n == Len(x)
        S == SumSeq(x)
        Q == SumSeq([i \in 1..n |-> x[i] * x[i]])
        V == n * Q - S * S
        A == 100 * (n * At(x, p) - S)
    IN  IF k >= 0 THEN A >= 0 /\ A * A >= k * k * V
        ELSE A >= 0 \/ A * A <= k * k * V

\* _select_by_peak_distance: from the highest peak down (of equal peaks the
\* later one first), a kept peak removes every peak closer than distance.
RECURSIVE SelectByDistance(_, _, _, _, _)
SelectByDistance(peaks, x, distance, todo, keep) ==
    IF todo = {} THEN keep
    ELSE LET j == CHOOSE a \in todo : \A b \in todo :
                      \/ At(x, peaks[b]) < At(x, peaks[a])
                      \/ At(x, peaks[b]) = At(x, peaks[a]) /\ b <= a
         IN  IF j \notin keep
             THEN SelectByDistance(peaks, x, distance, todo \ {j}, keep)
             ELSE SelectByDistance(peaks, x, distance, todo \ {j},
                      {k \in keep :
                          \/ k = j
                          \/ (k < j /\ peaks[j] - peaks[k] >= distance)
                          \/ (k > j /\ peaks[k] - peaks[j] >= distance)})

\* The members of a set of positions of a sequence, in order.
RECURSIVE Pick(_, _)
Pick(a, keep) ==
    IF a = <<>> THEN <<>>
    ELSE LET n == Len(a)
             front == Pick(SubSeq(a, 1, n - 1), keep)
         IN  IF n \in keep THEN Append(front, a[n]) ELSE front

\* _peak_prominences without a window: the bases and the prominence.
Prominence(x, peak) ==
    LET lo == CHOOSE a \in 0..peak :
                  /\ \A i \in a..peak : At(x, i) <= At(x, peak)
                  /\ (a = 0 \/ At(x, a - 1) > At(x, peak))
        hi == CHOOSE b \in peak..(Len(x) - 1) :
                  /\ \A i \in peak..b : At(x, i) <= At(x, peak)
                  /\ (b = Len(x) - 1 \/ At(x, b + 1) > At(x, peak))
        left_min == MinOf(Slice(x, lo, peak))
        right_min == MinOf(Slice(x, peak, hi))
        \* the scan keeps the first minimum it meets, going away from the peak
        left_base == CHOOSE i \in lo..peak :
                         /\ At(x, i) = left_min
                         /\ \A j \in (i + 1)..peak : At(x, j) # left_min
        right_base == CHOOSE i \in peak..hi :
                          /\ At(x, i) = right_min
                          /\ \A j \in peak..(i - 1) : At(x, j) # right_min
    IN  [prominence |-> At(x, peak) - MaxInt(left_min, right_min),
         left_base |-> left_base, right_base |-> right_base]

\* _peak_widths: the interpolated crossings of the level
\* x[peak] - prominence * rel / 100 on both sides of the peak.
PeakWidth(x, peak, rel) ==
    LET pr == Prominence(x, peak)
        h == 100 * At(x, peak) - rel * pr.prominence   \* 100 * the level
        i_min == pr.left_base
        i_max == pr.right_base
        li == CHOOSE i \in i_min..peak :
                  /\ ~(i_min < i /\ h < 100 * At(x, i))
                  /\ \A j \in (i + 1)..peak : i_min < j /\ h < 100 * At(x, j)
        ri == CHOOSE i \in peak..i_max :
                  /\ ~(i < i_max /\ h < 100 * At(x, i))
                  /\ \A j \in peak..(i - 1) : j < i_max /\ h < 100 * At(x, j)
        left_ip == IF 100 * At(x, li) < h
                   THEN LET d == 100 * (At(x, li + 1) - At(x, li))
                        IN  Frac(li * d + (h - 100 * At(x, li)), d)
                   ELSE Frac(li, 1)
        right_ip == IF 100 * At(x, ri) < h
                    THEN LET d == 100 * (At(x, ri - 1) - At(x, ri))
                         IN  Frac(ri * d - (h - 100 * At(x, ri)), d)
                    ELSE Frac(ri, 1)
    IN  [index |-> peak, left_ip |-> left_ip, right_ip |-> right_ip]

\* find_peaks: by height, then by distance, then by width.
ScipyFindPeaks(x, k, distance, min_width, max_width, rel) ==
    LET maxima == LocalMaxima(x)
        tall == SelectSeq(maxima, LAMBDA p : AboveHeight(x, p, k))
        apart == Pick(tall, SelectByDistance(tall, x, distance,
                                             1..Len(tall), 1..Len(tall)))
        wide == [i \in 1..Len(apart) |-> PeakWidth(x, apart[i], rel)]
    IN  SelectSeq(wide, LAMBDA c :
            LET w == FracSub(c.right_ip, c.left_ip)
            IN  FracLeq(Frac(min_width, 1), w) /\ FracLeq(w, Frac(max_width, 1)))

(***************************************************************************)
(* Peak.__init__                                                           *)
(***************************************************************************)
PeakParams ==
    {"index", "left_threshold_index", "right_threshold_index", "x_data", "y_data"}

NoPeak ==
    [index |-> 0, time |-> 0, left_threshold |-> 0, right_threshold |-> 0,
     height |-> 0, times |-> <<>>, values |-> <<>>, area |-> NoArea]

\* Peak(**kw): a keyword that is no parameter, or a parameter left out, is a
\* TypeError before the body runs; in the body an index past the end of
\* x_data or y_data is an IndexError.
Peak(kw) ==
    IF DOMAIN kw # PeakParams THEN [exc |-> "TypeError", peak |-> NoPeak]
    ELSE IF \/ kw.index >= Len(kw.x_data)
            \/ kw.left_threshold_index >= Len(kw.x_data)
            \/ kw.right_threshold_index >= Len(kw.x_data)
            \/ kw.index >= Len(kw.y_data)
         THEN [exc |-> "IndexError", peak |-> NoPeak]
         ELSE LET times == Slice(kw.x_data, kw.left_threshold_index,
                                 kw.right_threshold_index)
                  values == Slice(kw.y_data, kw.left_threshold_index,
                                  kw.right_threshold_index)
                  area == integrate(times, values, Omitted)
              IN  [exc |-> area.exc,
                   peak |-> [index |-> kw.index,
                             time |-> At(kw.x_data, kw.index),
                             left_threshold |-> At(kw.x_data, kw.left_threshold_index),
                             right_threshold |-> At(kw.x_data, kw.right_threshold_index),
                             height |-> At(kw.y_data, kw.index),
                             times |-> times, values |-> values,
                             area |-> area.area]]

(***************************************************************************)
(* ChromatogramRun                                                         *)
(***************************************************************************)
DefaultDistance == 75
DefaultMinHeight == 15          \* .15, in hundredths
DefaultMinWidth == 10
DefaultMaxWidth == 1000
DefaultRelativeHeight == 95     \* .95, in hundredths

\* The arguments of a find_peaks call; min_height and relative_height are in
\* hundredths.
DefaultArgs ==
    [normalize |-> FALSE, min_height |-> Omitted, distance |-> Omitted,
     min_width |-> Omitted, max_width |-> Omitted, relative_height |-> Omitted]

\* self.x and self.y
X == [i \in 1..Len(data) |-> data[i].time]

RawValues == [i \in 1..Len(data) |-> data[i].value]

Y(norm) ==
    IF ~hasData THEN [exc |-> "AttributeError", val |-> <<>>]
    ELSE IF norm THEN normalize(RawValues)
    ELSE [exc |-> None, val |-> RawValues]

\* The stored flag after an unconditional "self.NORMALIZE = normalize".
NormalizeAssigned(normalize_arg, stored) == normalize_arg

\* "if normalize: self.NORMALIZE = normalize"
NormalizeAfter(normalize_arg, stored) ==
    IF normalize_arg THEN normalize_arg ELSE stored

\* The left boundary index taken from the right crossing.
LeftThresholdIndexSwapped(cand) == Round(cand.right_ip)

\* round(properties["left_ips"][i]) and round(properties["right_ips"][i])
LeftThresholdIndex(cand) == Round(cand.left_ip)

RightThresholdIndex(cand) == Round(cand.right_ip)

\* The keywords of the Peak(...) call for one candidate.
PeakCall(cand, x, y) ==
    LET l == LeftThresholdIndex(cand)
        r == RightThresholdIndex(cand)
    IN  [index |-> cand.index,
         time |-> At(x, cand.index),
         left_threshold |-> At(x, l),
         right_threshold |-> At(x, r),
         left_threshold_index |-> l,
         right_threshold_index |-> r,
         height |-> At(y, cand.index),
         x_data |-> Slice(x, l, r),
         y_data |-> Slice(y, l, r)]

\* The loop over the candidates: the Peak calls made, and the list built or
\* the exception that ended the loop.
RECURSIVE BuildPeaks(_, _, _)
BuildPeaks(cands, x, y) ==
    IF cands = <<>> THEN [exc |-> None, peaks |-> <<>>, built |-> <<>>]
    ELSE LET kw == PeakCall(Head(cands), x, y)
             made == Peak(kw)
         IN  IF made.exc # None
             THEN [exc |-> made.exc, peaks |-> <<>>, built |-> <<kw>>]
             ELSE LET rest == BuildPeaks(Tail(cands), x, y)
                  IN  [exc |-> rest.exc,
                       peaks |-> IF rest.exc = None
                                 THEN <<made.peak>> \o rest.peaks ELSE <<>>,
                       built |-> <<kw>> \o rest.built]

NoUsed == [min_height |-> 0, distance |-> 0, min_width |-> 0, max_width |-> 0,
           relative_height |-> 0]

\* find_peaks(args) on the run as it is: the stored flag after the call, what
\* the detection was given, and the list returned or the exception raised.
find_peaks(args) ==
    LET norm == NormalizeAfter(args.normalize, NORMALIZE)
        y == Y(norm)
        used ==
            [min_height |-> IF Truthy(args.min_height)
                            THEN args.min_height[1] ELSE MIN_HEIGHT,
             distance |-> IF Truthy(args.distance)
                          THEN args.distance[1] ELSE DISTANCE,
             min_width |-> IF Truthy(args.min_width)
                           THEN args.min_width[1] ELSE MIN_WIDTH,
             max_width |-> IF Truthy(args.max_width)
                           THEN args.max_width[1] ELSE MAX_WIDTH,
             relative_height |-> RELATIVE_HEIGHT]
        stopped(exc) ==
            [normalize |-> norm, exc |-> exc, ran |-> FALSE, x |-> <<>>,
             used |-> NoUsed, cands |-> <<>>, built |-> <<>>, peaks |-> <<>>]
    IN  IF y.exc # None THEN stopped(y.exc)
        ELSE IF used.distance < 1 THEN stopped("ValueError")
        ELSE LET detected(cands) ==
                     LET looped(loop) ==
                             [normalize |-> norm, exc |-> loop.exc, ran |-> TRUE,
                              x |-> y.val, used |-> used, cands |-> cands,
                              built |-> loop.built, peaks |-> loop.peaks]
                     IN  CHOOSE r \in {looped(loop) :
                                 loop \in {BuildPeaks(cands, X, y.val)}} : TRUE
             IN  CHOOSE r \in {detected(cands) :
                         cands \in {ScipyFindPeaks(y.val, used.min_height,
                                        used.distance, used.min_width,
                                        used.max_width, used.relative_height)}} : TRUE

\* sum(list): Python's 0 plus the elements, kept as the application.
SumOf(list) == [fn |-> "sum", of |-> list]

NoTotal == [fn |-> "none", of |-> <<>>]

\* The elution_volumes property: find_peaks() with every argument left out,
\* then peak.integrate() per peak, a method Peak does not have.
elution_volumes ==
    LET after(found) ==
            IF found.exc # None
            THEN [found |-> found, exc |-> found.exc, volumes |-> <<>>]
            ELSE IF found.peaks # <<>>
            THEN [found |-> found, exc |-> "AttributeError", volumes |-> <<>>]
            ELSE [found |-> found, exc |-> None, volumes |-> <<>>]
    IN  CHOOSE r \in {after(found) : found \in {find_peaks(DefaultArgs)}} : TRUE

NoOp ==
    [op |-> "none", args |-> DefaultArgs, exc |-> None, ran |-> FALSE,
     x |-> <<>>, used |-> NoUsed, cands |-> <<>>, built |-> <<>>,
     peaks |-> <<>>, volumes |-> <<>>, total |-> NoTotal, y |-> <<>>]

(***************************************************************************)
(* The files a run is constructed on.                                      *)
(***************************************************************************)
RECURSIVE DecStr(_)
DecStr(n) ==
    LET d == <<"0", "1", "2", "3", "4", "5", "6", "7", "8", "9">>
    IN  IF n < 10 THEN <<d[n + 1]>> ELSE DecStr(n \div 10) \o <<d[(n % 10) + 1]>>

TimeOf(i) == 10 + i

\* The table section of a file holding the series v: the header, then one
\* row per sample with the step column "n.a.".
TableText(v) ==
    Join(<<<<"t", "\t", "s", "\t", "v">>>>
         \o [i \in 1..Len(v) |->
                Join(<<DecStr(TimeOf(i - 1)), Sentinel, DecStr(v[i])>>, "\t")],
         "\n")

Ramp(h) == [i \in 1..(2 * h + 1) |-> IF i <= h + 1 THEN i - 1 ELSE 2 * h + 1 - i]

Series ==
    UNION {[1..n -> 0..MaxVal] : n \in 0..MaxLen} \cup {Ramp(WideApex)}

\* A file: missing, unreadable, or a text with its number of section titles
\* and the series its table section holds.
NoFile == [kind |-> "none", titles |-> 0, series |-> <<>>]

Files ==
    {[kind |-> "missing", titles |-> 0, series |-> <<>>],
     [kind |-> "unreadable", titles |-> 0, series |-> <<>>],
     [kind |-> "text", titles |-> 3, series |-> <<0, 1, 0>>]}
    \cup {[kind |-> "text", titles |-> 4, series |-> v] : v \in Series}

\* ChromatogramRun(filepath): open() raises FileNotFoundError for a missing
\* file, which the constructor catches (print, return None: the object is
\* handed back without data), and PermissionError for an unreadable one,
\* which it does not catch.  sections[8] needs four section titles.
ChromatogramRunInit(f) ==
    IF f.kind = "missing"
    THEN [exc |-> None, caught |-> "FileNotFoundError", hasData |-> FALSE, data |-> <<>>]
    ELSE IF f.kind = "unreadable"
    THEN [exc |-> "PermissionError", caught |-> None, hasData |-> FALSE, data |-> <<>>]
    ELSE IF f.titles < 4
    THEN [exc |-> "IndexError", caught |-> None, hasData |-> FALSE, data |-> <<>>]
    ELSE LET table == parse_chromatogram_data(Strip(TableText(f.series)))
         IN  [exc |-> table.exc, caught |-> None,
              hasData |-> table.exc = None, data |-> table.rows]

NoCtor == [exc |-> None, caught |-> None, hasData |-> FALSE, data |-> <<>>]

(***************************************************************************)
(* States in which a part of the model is not in use.                      *)
(***************************************************************************)
RunIdle ==
    /\ phase = "idle" /\ file = NoFile /\ ctor = NoCtor
    /\ hasData = FALSE /\ data = <<>>
    /\ NORMALIZE = FALSE /\ DISTANCE = DefaultDistance
    /\ MIN_HEIGHT = DefaultMinHeight /\ MIN_WIDTH = DefaultMinWidth
    /\ MAX_WIDTH = DefaultMaxWidth /\ RELATIVE_HEIGHT = DefaultRelativeHeight
    /\ last = NoOp

ParseIdle == content = <<>> /\ parsed = Pending

NoCall == [x |-> <<>>, y |-> <<>>, method |-> Omitted]

NotCalled == [exc |-> "pending", area |-> NoArea]

IntIdle == icall = NoCall /\ iout = NotCalled

(***************************************************************************)
(* The parser's specification: one call on one text.                       *)
(***************************************************************************)
InitParse ==
    /\ content \in Contents
    /\ parsed = Pending
    /\ RunIdle
    /\ IntIdle

Parse ==
    /\ parsed = Pending
    /\ parsed' = parse_chromatogram_data(content)
    /\ UNCHANGED <<content, runVars, intVars>>

NextParse == Parse

SpecParse == InitParse /\ [][NextParse]_vars

(***************************************************************************)
(* The specification of utils.integrate: one call.                         *)
(***************************************************************************)
Methods ==
    {Omitted, Given("simpson"), Given("trapezoid"), Given("Simpson"), Given("")}

Windows == UNION {[1..n -> 0..MaxVal] : n \in 1..MaxWindow}

InitIntegrate ==
    /\ icall \in {[x |-> [i \in 1..Len(w) |-> TimeOf(i - 1)], y |-> w, method |-> m] :
                     w \in Windows, m \in Methods}
    /\ iout = NotCalled
    /\ ParseIdle
    /\ RunIdle

Integrate ==
    /\ iout = NotCalled
    /\ iout' = integrate(icall.x, icall.y, icall.method)
    /\ UNCHANGED <<icall, parseVars, runVars>>

NextIntegrate == Integrate

SpecIntegrate == InitIntegrate /\ [][NextIntegrate]_vars

(***************************************************************************)
(* The specification of a run: the constructor call, then any sequence of  *)
(* find_peaks, y, elution_volumes and total_elution_volume on the object   *)
(* handed back.                                                            *)
(***************************************************************************)
\* The call main.py makes.
MainArgs ==
    [normalize |-> TRUE, min_height |-> Given(15), distance |-> Given(75),
     min_width |-> Given(10), max_width |-> Given(1000),
     relative_height |-> Given(95)]

\* The find_peaks calls of the model: main.py's, and every call that gives at
\* most MaxGiven of the five numeric arguments.
ArgSets ==
    {MainArgs} \cup
    {a \in [normalize : BOOLEAN,
            min_height : {Omitted, Given(0), Given(100)},
            distance : {Omitted, Given(2)},
            min_width : {Omitted, Given(0), Given(1)},
            max_width : {Omitted, Given(2)},
            relative_height : {Omitted, Given(50)}] :
        Cardinality({p \in {"min_height", "distance", "min_width", "max_width",
                            "relative_height"} : a[p] # Omitted}) <= MaxGiven}

Init ==
    /\ phase = "new" /\ file = NoFile /\ ctor = NoCtor
    /\ hasData = FALSE /\ data = <<>>
    /\ NORMALIZE = FALSE /\ DISTANCE = DefaultDistance
    /\ MIN_HEIGHT = DefaultMinHeight /\ MIN_WIDTH = DefaultMinWidth
    /\ MAX_WIDTH = DefaultMaxWidth /\ RELATIVE_HEIGHT = DefaultRelativeHeight
    /\ last = NoOp
    /\ ParseIdle
    /\ IntIdle

Construct ==
    /\ phase = "new"
    /\ \E f \in Files :
        \E made \in {ChromatogramRunInit(f)} :
            /\ file' = f
            /\ ctor' = made
            /\ hasData' = made.hasData
            /\ data' = made.data
            /\ phase' = IF made.exc = None THEN "live" ELSE "failed"
    /\ UNCHANGED <<settingVars, last, parseVars, intVars>>

FindPeaks ==
    /\ phase = "live"
    /\ \E args \in ArgSets :
        \E r \in {find_peaks(args)} :
            /\ NORMALIZE' = r.normalize
            /\ last' = [op |-> "find_peaks", args |-> args, exc |-> r.exc,
                        ran |-> r.ran, x |-> r.x, used |-> r.used,
                        cands |-> r.cands, built |-> r.built, peaks |-> r.peaks,
                        volumes |-> <<>>, total |-> NoTotal, y |-> <<>>]
    /\ UNCHANGED <<phase, file, ctor, hasData, data, DISTANCE, MIN_HEIGHT,
                   MIN_WIDTH, MAX_WIDTH, RELATIVE_HEIGHT, parseVars, intVars>>

AccessY ==
    /\ phase = "live"
    /\ \E y \in {Y(NORMALIZE)} :
           last' = [NoOp EXCEPT !.op = "y", !.exc = y.exc, !.y = y.val]
    /\ UNCHANGED <<phase, file, ctor, hasData, data, settingVars, parseVars, intVars>>

ElutionVolumes ==
    /\ phase = "live"
    /\ \E r \in {elution_volumes} :
           /\ NORMALIZE' = r.found.normalize
           /\ last' = [op |-> "elution_volumes", args |-> DefaultArgs,
                       exc |-> r.exc, ran |-> r.found.ran, x |-> r.found.x,
                       used |-> r.found.used, cands |-> r.found.cands,
                       built |-> r.found.built, peaks |-> r.found.peaks,
                       volumes |-> r.volumes, total |-> NoTotal, y |-> <<>>]
    /\ UNCHANGED <<phase, file, ctor, hasData, data, DISTANCE, MIN_HEIGHT,
                   MIN_WIDTH, MAX_WIDTH, RELATIVE_HEIGHT, parseVars, intVars>>

\* sum(self.elution_volumes)
TotalElutionVolume ==
    /\ phase = "live"
    /\ \E r \in {elution_volumes} :
           /\ NORMALIZE' = r.found.normalize
           /\ last' = [op |-> "total_elution_volume", args |-> DefaultArgs,
                       exc |-> r.exc, ran |-> r.found.ran, x |-> r.found.x,
                       used |-> r.found.used, cands |-> r.found.cands,
                       built |-> r.found.built, peaks |-> r.found.peaks,
                       volumes |-> r.volumes,
                       total |-> IF r.exc = None THEN SumOf(r.volumes) ELSE NoTotal,
                       y |-> <<>>]
    /\ UNCHANGED <<phase, file, ctor, hasData, data, DISTANCE, MIN_HEIGHT,
                   MIN_WIDTH, MAX_WIDTH, RELATIVE_HEIGHT, parseVars, intVars>>

Next ==
    \/ Construct
    \/ FindPeaks
    \/ AccessY
    \/ ElutionVolumes
    \/ TotalElutionVolume

Spec == Init /\ [][Next]_vars

(***************************************************************************)
(* The rows of a text, stated by positions instead of by scanning.         *)
(***************************************************************************)
\* The pieces of s between the occurrences of c.
Pieces(s, c) ==
    LET P == {0, Len(s) + 1} \cup {i \in 1..Len(s) : s[i] = c}
        Kth(k) == CHOOSE a \in P : Cardinality({p \in P : p < a}) = k - 1
    IN  [k \in 1..(Cardinality(P) - 1) |->
            SubSeq(s, Kth(k) + 1, Kth(k + 1) - 1)]

\* s from its first to its last non-whitespace character.
Trimmed(s) ==
    LET nz == {i \in 1..Len(s) : s[i] \notin Whitespace}
    IN  IF nz = {} THEN <<>>
        ELSE SubSeq(s, CHOOSE i \in nz : \A j \in nz : i <= j,
                       CHOOSE i \in nz : \A j \in nz : j <= i)

\* s from its first non-whitespace character on.
LeftTrimmed(s) ==
    LET nz == {i \in 1..Len(s) : s[i] \notin Whitespace}
    IN  IF nz = {} THEN <<>>
        ELSE SubSeq(s, CHOOSE i \in nz : \A j \in nz : i <= j, Len(s))

SentinelAsZero(f) == Replace(f, Sentinel, ZeroText)

\* Three fields, all numbers once the sentinel is substituted in the step.
RowNumeric(line) ==
    LET f == Pieces(line, "\t")
    IN  /\ Len(f) = 3
        /\ IsFloat(f[1]) /\ IsFloat(SentinelAsZero(f[2])) /\ IsFloat(f[3])

RowValue(line) ==
    LET f == Pieces(line, "\t")
    IN  [time |-> FloatVal(f[1]), step |-> FloatVal(SentinelAsZero(f[2])),
         value |-> FloatVal(f[3])]

KeptRows(text) ==
    LET kept == SelectSeq(Tail(Pieces(text, "\n")), RowNumeric)
    IN  [k \in 1..Len(kept) |-> RowValue(kept[k])]

\* Three fields, all numbers once the sentinel is substituted in each.
RowNumericAnySentinel(line) ==
    LET f == Pieces(line, "\t")
    IN  /\ Len(f) = 3
        /\ \A i \in 1..3 : IsFloat(SentinelAsZero(f[i]))

RowValueAnySentinel(line) ==
    LET f == Pieces(line, "\t")
    IN  [time |-> FloatVal(SentinelAsZero(f[1])),
         step |-> FloatVal(SentinelAsZero(f[2])),
         value |-> FloatVal(SentinelAsZero(f[3]))]

KeptRowsAnySentinel(text) ==
    LET kept == SelectSeq(Tail(Pieces(text, "\n")), RowNumericAnySentinel)
    IN  [k \in 1..Len(kept) |-> RowValueAnySentinel(kept[k])]

C8_SentinelInAnyField ==
    parsed # Pending =>
        parsed = [exc |-> None, rows |-> KeptRowsAnySentinel(Trimmed(content))]

(***************************************************************************)
(* Claims about the run.                                                   *)
(***************************************************************************)
Detected == last.op = "find_peaks" /\ last.ran

\* C1 as stated: a find_peaks call whose detection yields candidates returns,
\* without raising, one Peak per candidate in increasing apex order, each
\* with the full series' time at the apex, the full series' times at the
\* rounded boundaries, and the inclusive slice of times and values between
\* them; with no candidate it returns the empty list.
C1_OnePeakPerCandidate ==
    Detected =>
        /\ last.exc = None
        /\ Len(last.peaks) = Len(last.cands)
        /\ \A i \in 1..Len(last.cands) :
            LET c == last.cands[i]
                p == last.peaks[i]
                l == Round(c.left_ip)
                r == Round(c.right_ip)
            IN  /\ p.index = c.index
                /\ p.time = At(X, c.index)
                /\ p.left_threshold = At(X, l)
                /\ p.right_threshold = At(X, r)
                /\ p.times = Slice(X, l, r)
                /\ p.values = Slice(last.x, l, r)
                /\ \A j \in 1..(i - 1) : last.cands[j].index < c.index

\* C2 as stated: constructing a run on a missing or unreadable file raises,
\* and no object is handed back.
C2_MissingFileFailsConstruction ==
    file.kind \in {"missing", "unreadable"} =>
        phase = "failed" /\ ctor.exc # None

\* C3 as stated: each find_peaks call detects on the normalized series
\* exactly when its own normalize argument is true, and on the raw series
\* otherwise.
C3_NormalizesByTheCallsOwnArgument ==
    Detected =>
        last.x = IF last.args.normalize
                 THEN [i \in 1..Len(data) |-> data[i].value - MinOf(RawValues)]
                 ELSE RawValues

\* C4 as stated: each of min_height, distance, min_width, max_width and
\* relative_height given to find_peaks is the value the detection uses, and
\* the stored default is used only when the argument is left out.
C4_GivenArgumentsAreUsed ==
    Detected =>
        /\ last.used.min_height =
              IF last.args.min_height = Omitted THEN MIN_HEIGHT
              ELSE last.args.min_height[1]
        /\ last.used.distance =
              IF last.args.distance = Omitted THEN DISTANCE
              ELSE last.args.distance[1]
        /\ last.used.min_width =
              IF last.args.min_width = Omitted THEN MIN_WIDTH
              ELSE last.args.min_width[1]
        /\ last.used.max_width =
              IF last.args.max_width = Omitted THEN MAX_WIDTH
              ELSE last.args.max_width[1]
        /\ last.used.relative_height =
              IF last.args.relative_height = Omitted THEN RELATIVE_HEIGHT
              ELSE last.args.relative_height[1]

\* C5 as stated: elution_volumes and total_elution_volume are obtained
\* without raising, elution_volumes holds one area per peak of the run in
\* detection order, and total_elution_volume is their sum.
C5_VolumesWithoutRaising ==
    last.op \in {"elution_volumes", "total_elution_volume"} =>
        /\ last.exc = None
        /\ Len(last.volumes) = Len(last.cands)
        /\ last.op = "total_elution_volume" => last.total = SumOf(last.volumes)

\* C6: for every candidate of a detection, the boundary indices find_peaks
\* computes for its Peak are the crossings rounded to the nearest integer,
\* lie inside the series, and enclose the apex: 0 <= left <= apex <= right
\* <= len - 1; and they are the indices the Peak call is given.
C6_BoundaryIndicesEncloseApex ==
    /\ \A i \in 1..Len(last.cands) :
        LET c == last.cands[i]
            l == LeftThresholdIndex(c)
            r == RightThresholdIndex(c)
        IN  /\ 0 <= l /\ l <= c.index /\ c.index <= r /\ r <= Len(last.x) - 1
            /\ 2 * (c.left_ip.n - l * c.left_ip.d) <= c.left_ip.d
            /\ 2 * (l * c.left_ip.d - c.left_ip.n) <= c.left_ip.d
            /\ 2 * (c.right_ip.n - r * c.right_ip.d) <= c.right_ip.d
            /\ 2 * (r * c.right_ip.d - c.right_ip.n) <= c.right_ip.d
    /\ \A i \in 1..Len(last.built) :
        /\ last.built[i].index = last.cands[i].index
        /\ last.built[i].left_threshold_index = LeftThresholdIndex(last.cands[i])
        /\ last.built[i].right_threshold_index = RightThresholdIndex(last.cands[i])

\* A find_peaks call that reached the Peak call of a candidate whose
\* crossings are fractional and whose boundaries lie strictly around the apex.
C6_Witness ==
    /\ Detected
    /\ Len(last.built) >= 1
    /\ last.built[1].left_threshold_index < last.built[1].index
    /\ last.built[1].index < last.built[1].right_threshold_index
    /\ last.cands[1].left_ip.n % last.cands[1].left_ip.d # 0

\* C9: every operation on a constructed run leaves the data and the stored
\* DISTANCE, MIN_HEIGHT, MIN_WIDTH, MAX_WIDTH and RELATIVE_HEIGHT unchanged;
\* NORMALIZE changes only in a find_peaks call given normalize = True, only
\* from False to True, and once True stays True.
C9_OnlyNormalizeChangesAndOnlyToTrue ==
    [][phase = "live" =>
          /\ data' = data /\ hasData' = hasData
          /\ DISTANCE' = DISTANCE /\ MIN_HEIGHT' = MIN_HEIGHT
          /\ MIN_WIDTH' = MIN_WIDTH /\ MAX_WIDTH' = MAX_WIDTH
          /\ RELATIVE_HEIGHT' = RELATIVE_HEIGHT
          /\ (NORMALIZE => NORMALIZE')
          /\ (NORMALIZE' # NORMALIZE =>
                last'.op = "find_peaks" /\ last'.args.normalize)]_vars

\* A find_peaks call with normalize = False and other arguments given, made
\* after the flag was set: the flag is still set.
C9_Witness ==
    /\ last.op = "find_peaks"
    /\ ~last.args.normalize
    /\ last.args.min_width # Omitted
    /\ last.args.distance # Omitted
    /\ NORMALIZE

(***************************************************************************)
(* Claims about utils.integrate.                                           *)
(***************************************************************************)
\* C10: integrate with a method other than 'simpson' raises ValueError and
\* returns no area; with 'simpson', or the method left out, it returns the
\* Simpson area and raises nothing.
C10_OnlySimpsonIntegrates ==
    iout # NotCalled =>
        IF icall.method \in {Omitted, Given("simpson")}
        THEN iout = [exc |-> None, area |-> Simpson(icall.x, icall.y)]
        ELSE iout = [exc |-> "ValueError", area |-> NoArea]

\* A call with an unsupported method that raised.
C10_Witness ==
    /\ icall.method = Given("trapezoid")
    /\ Len(icall.y) = MaxWindow
    /\ iout.exc = "ValueError"

====
